---- MODULE Spec2Model ----
(***************************************************************************)
(* Model of the logger package: the verbosity parser, the package settings *)
(* parser, the filter/lookup, the formatter and the StandardWriter sink.   *)
(* Strings are sequences of one-character strings, so that splitting,      *)
(* trimming and upper-casing are computed, not assumed.                    *)
(***************************************************************************)
EXTENDS Integers, Sequences, FiniteSets, TLC

VARIABLES
    input,    \* argument of the parser under test (a string)
    dflt,     \* defaultOutputSettings argument of parsePackageSettings
    ret,      \* value returned by the last call
    pc,       \* position of the caller
    env,      \* process environment: LOG and LOG_LEVEL
    writer,   \* the StandardWriter value (ColorsEnabled, Settings)
    stream,   \* what the destination stream has received
    calls,    \* history of Write calls: the record and whether it was enabled
    target,   \* per caller: the *os.File its writer holds
    ppc,      \* per caller: position inside Write
    buf,      \* per caller: bytes of the formatted line not yet written
    fdlock    \* per *os.File: the caller holding its write lock, or 0

vars == <<input, dflt, ret, pc, env, writer, stream, calls, target, ppc, buf, fdlock>>

----------------------------------------------------------------------------
(* Bounds *)
MaxPad == 1        \* whitespace characters around a verbosity token
MaxItems == 2      \* items in a LOG list
MaxWrites == 2     \* Write calls on one writer
MaxChunks == 3     \* pieces of one line handed to the stream

----------------------------------------------------------------------------
(* strings *)

Min(S) == CHOOSE x \in S : \A y \in S : x <= y
Max(S) == CHOOSE x \in S : \A y \in S : x >= y

LowerRunes == <<"b", "d", "e", "i", "m", "o", "r", "t", "u", "w", "x">>
UpperRunes == <<"B", "D", "E", "I", "M", "O", "R", "T", "U", "W", "X">>

\* unicode.ToUpper on one rune of the (ASCII) alphabet of the model
ToUpperRune(c) ==
    IF \E i \in 1..Len(LowerRunes) : LowerRunes[i] = c
    THEN UpperRunes[CHOOSE i \in 1..Len(LowerRunes) : LowerRunes[i] = c]
    ELSE c

\* strings.ToUpper
ToUpper(s) == [i \in 1..Len(s) |-> ToUpperRune(s[i])]

IsSpace(c) == c \in {" ", "\t", "\n"}

\* strings.TrimSpace
TrimSpace(s) ==
    LET keep == {i \in 1..Len(s) : ~IsSpace(s[i])}
    IN  IF keep = {} THEN <<>> ELSE SubSeq(s, Min(keep), Max(keep))

\* strings.Split with a one-character separator: n separators give n+1 pieces
RECURSIVE Split(_, _)
Split(s, sep) ==
    LET pos == {i \in 1..Len(s) : s[i] = sep}
    IN  IF pos = {} THEN <<s>>
        ELSE <<SubSeq(s, 1, Min(pos) - 1)>> \o Split(SubSeq(s, Min(pos) + 1, Len(s)), sep)

----------------------------------------------------------------------------
(* OutputSettings and the verbosity parser *)

OutputSettings == [Info : BOOLEAN, Error : BOOLEAN, Timer : BOOLEAN]

Mask(i, e, t) == [Info |-> i, Error |-> e, Timer |-> t]

muted == Mask(FALSE, FALSE, FALSE)

MUTE == <<"M", "U", "T", "E">>
ERROR == <<"E", "R", "R", "O", "R">>
TIMER == <<"T", "I", "M", "E", "R">>
INFO == <<"I", "N", "F", "O">>

parseVerbosityLevel_noTrim(v) ==
    LET val == ToUpper(v)
    IN  IF val = MUTE THEN Mask(FALSE, FALSE, FALSE)
        ELSE Mask(~(val = TIMER \/ val = ERROR), TRUE, ~(val = ERROR))

parseVerbosityLevel(v) ==
    LET val == ToUpper(TrimSpace(v))
    IN  IF val = MUTE THEN Mask(FALSE, FALSE, FALSE)
        ELSE LET s0 == Mask(TRUE, TRUE, TRUE)
                 s1 == IF val = TIMER THEN [s0 EXCEPT !.Info = FALSE] ELSE s0
                 s2 == IF val = ERROR THEN [s1 EXCEPT !.Info = FALSE, !.Timer = FALSE] ELSE s1
             IN  s2

----------------------------------------------------------------------------
(* the package settings parser *)

Nil == [nil |-> TRUE]

EmptyMap == [k \in {} |-> muted]

Put(m, k, v) == [x \in (DOMAIN m) \cup {k} |-> IF x = k THEN v ELSE m[x]]

parsePackageName_lastPiece(item) ==
    LET parsed == Split(item, "@")
        name == TrimSpace(parsed[1])
    IN  IF Len(parsed) > 1
        THEN [name |-> name, verbosity |-> parseVerbosityLevel(parsed[Len(parsed)])]
        ELSE [name |-> name, verbosity |-> Nil]

\* Go's parsed[0] and parsed[1] are parsed[1] and parsed[2] here
parsePackageName(item) ==
    LET parsed == Split(item, "@")
        name == TrimSpace(parsed[1])
    IN  IF Len(parsed) > 1
        THEN [name |-> name, verbosity |-> parseVerbosityLevel(parsed[2])]
        ELSE [name |-> name, verbosity |-> Nil]

RECURSIVE FirstWins(_, _, _)
FirstWins(all, items, defaultOutputSettings) ==
    IF items = <<>> THEN all
    ELSE LET pn == parsePackageName(Head(items))
             verbosity == IF pn.verbosity = Nil THEN defaultOutputSettings ELSE pn.verbosity
         IN  FirstWins(IF pn.name \in DOMAIN all THEN all ELSE Put(all, pn.name, verbosity),
                       Tail(items), defaultOutputSettings)

parsePackageSettings_firstWins(in, defaultOutputSettings) ==
    FirstWins(EmptyMap, Split(in, ","), defaultOutputSettings)

\* the loop of parsePackageSettings over the remaining items
RECURSIVE SettingsLoop(_, _, _)
SettingsLoop(all, items, defaultOutputSettings) ==
    IF items = <<>> THEN all
    ELSE LET pn == parsePackageName(Head(items))
             verbosity == IF pn.verbosity = Nil THEN defaultOutputSettings ELSE pn.verbosity
         IN  SettingsLoop(Put(all, pn.name, verbosity), Tail(items), defaultOutputSettings)

parsePackageSettings(in, defaultOutputSettings) ==
    SettingsLoop(EmptyMap, Split(in, ","), defaultOutputSettings)

----------------------------------------------------------------------------
(* filter / lookup *)

STAR == <<"*">>

LoggerSettings_wildcardFirst(Settings, p) ==
    IF STAR \in DOMAIN Settings THEN Settings[STAR]
    ELSE IF p \in DOMAIN Settings THEN Settings[p]
    ELSE muted

LoggerSettings(Settings, p) ==
    IF p \in DOMAIN Settings THEN Settings[p]
    ELSE IF STAR \in DOMAIN Settings THEN Settings[STAR]
    ELSE muted

IsEnabled_timerAsError(Settings, logger, level) ==
    LET settings == LoggerSettings(Settings, logger)
    IN  IF level = INFO THEN settings.Info
        ELSE IF level = ERROR THEN settings.Error
        ELSE IF level = TIMER THEN settings.Error
        ELSE FALSE

IsEnabled(Settings, logger, level) ==
    LET settings == LoggerSettings(Settings, logger)
    IN  IF level = INFO THEN settings.Info
        ELSE IF level = ERROR THEN settings.Error
        ELSE IF level = TIMER THEN settings.Timer
        ELSE FALSE

----------------------------------------------------------------------------
(* the log record and the formatter *)

DEBUG == <<"D", "E", "B", "U", "G">>

IntVal(n) == [kind |-> "int", v |-> n]
ChanVal == [kind |-> "chan", v |-> 0]
AttrsVal(m) == [kind |-> "attrs", v |-> m]

Log(package, level, message, time, attrs, elapsed) ==
    [Package |-> package, Level |-> level, Message |-> message, Time |-> time,
     Attrs |-> attrs, ElapsedNano |-> elapsed]

red == "\\x1b[31m"
reset == "\\x1b[0m"
NumColors == 6
Palette == <<"\\x1b[32m", "\\x1b[33m", "\\x1b[34m", "\\x1b[35m", "\\x1b[36m", "\\x1b[37m">>

\* a pure function of the package name into a fixed palette
colorFor(package) == Palette[(Len(package) % NumColors) + 1]

\* fmt's %v of an attribute value
ValueString(val) == IF val.kind = "int" THEN ToString(val.v) ELSE "0xc000010000"

\* fmt's %v of a time.Duration below one microsecond
DurationString(n) == IF n = 0 THEN "0s" ELSE ToString(n) \o "ns"

\* the orders in which a range over the map may visit its keys
Orders(attrs) ==
    IF attrs = Nil THEN {<<>>}
    ELSE {o \in [1..Cardinality(DOMAIN attrs) -> DOMAIN attrs] :
             \A i, j \in DOMAIN o : i # j => o[i] # o[j]}

PrettyAttrs(attrs, order) ==
    IF attrs = Nil THEN <<>>
    ELSE [i \in 1..Len(order) |-> [key |-> order[i], val |-> ValueString(attrs[order[i]])]]

PrettyLabelExt(log) ==
    IF log.Level = ERROR THEN <<"(", red, "!", colorFor(log.Package), ")">>
    ELSE IF log.Level = TIMER
         THEN <<"(", reset, DurationString(log.ElapsedNano), colorFor(log.Package), ")">>
    ELSE <<>>

PrettyLabel(log) ==
    [color |-> colorFor(log.Package), package |-> log.Package, ext |-> PrettyLabelExt(log),
     reset |-> reset]

PrettyFormat(log, now, order) ==
    [mode |-> "pretty", time |-> now, label |-> PrettyLabel(log), message |-> log.Message,
     attrs |-> PrettyAttrs(log.Attrs, order)]

\* json.Marshal fails on a value it cannot encode (a channel)
MarshalError(log) ==
    IF log.Attrs # Nil /\ \E k \in DOMAIN log.Attrs : log.Attrs[k].kind = "chan"
    THEN "json: unsupported type: chan int"
    ELSE ""

JSONFormat_dropFailure(log) ==
    [mode |-> "json", object |-> log]

JSONFormat(log) ==
    IF MarshalError(log) # ""
    THEN [mode |-> "json", object |-> ("logger-error" :> MarshalError(log))]
    ELSE [mode |-> "json", object |-> log]

Format(ColorsEnabled, log, now, order) ==
    IF ColorsEnabled THEN PrettyFormat(log, now, order) ELSE JSONFormat(log)

----------------------------------------------------------------------------
(* the facade *)

\* fmt.Sprintf of a template whose verbs are all %d, over the remaining arguments
RECURSIVE Sprintf(_, _)
Sprintf(template, v) ==
    IF template = <<>>
    THEN IF v = <<>> THEN "" ELSE "%!(EXTRA int=" \o ToString(Head(v).v) \o ")"
    ELSE IF Head(template) = "%d"
         THEN IF v = <<>> THEN "%!d(MISSING)" \o Sprintf(Tail(template), v)
              ELSE ToString(Head(v).v) \o Sprintf(Tail(template), Tail(v))
         ELSE Head(template) \o Sprintf(Tail(template), v)

\* the trailing Attrs argument, if any, is taken out of the arguments
SplitAttrs(args) ==
    IF args # <<>> /\ args[Len(args)].kind = "attrs"
    THEN [v |-> SubSeq(args, 1, Len(args) - 1), attrs |-> args[Len(args)].v]
    ELSE [v |-> args, attrs |-> Nil]

\* the record Logger.Log hands to runtime.Log
LoggerLog(name, level, message, args, now) ==
    Log(name, level, Sprintf(message, SplitAttrs(args).v), now, SplitAttrs(args).attrs, 0)

----------------------------------------------------------------------------
(* values the variables of the other specifications rest at *)

NoRet == [op |-> "none"]

ParserIdle == input = <<>> /\ dflt = muted
WriterIdle == env = Nil /\ writer = Nil /\ stream = <<>> /\ calls = <<>>
CallersIdle == target = <<>> /\ ppc = <<>> /\ buf = <<>> /\ fdlock = <<>>

writerVars == <<env, writer, stream, calls>>
callerVars == <<target, ppc, buf, fdlock>>

----------------------------------------------------------------------------
(* SpecVerb: parseVerbosityLevel applied to one token *)

RECURSIVE CaseVariants(_)
CaseVariants(w) ==
    IF w = <<>> THEN {<<>>}
    ELSE {<<c>> \o r : c \in {Head(w), ToUpperRune(Head(w))}, r \in CaseVariants(Tail(w))}

RECURSIVE SeqsUpTo(_, _)
SeqsUpTo(S, n) ==
    IF n = 0 THEN {<<>>}
    ELSE LET shorter == SeqsUpTo(S, n - 1)
         IN  shorter \cup {<<c>> \o r : c \in S, r \in {x \in shorter : Len(x) = n - 1}}

Pads == SeqsUpTo({" ", "\t"}, MaxPad)

VerbWords ==
    CaseVariants(<<"m", "u", "t", "e">>) \cup CaseVariants(<<"e", "r", "r", "o", "r">>)
    \cup CaseVariants(<<"t", "i", "m", "e", "r">>)
    \cup {<<>>, <<"i", "n", "f", "o">>, <<"I", "N", "F", "O">>, <<"m", "u", "t">>,
          <<"m", "u", "t", "e", "d">>, <<"e", "r", "r", "o", "r", "s">>,
          <<"t", "i", "m", "e">>, <<"m", "u", " ", "t", "e">>, <<"x">>, <<"*">>,
          <<"e", "r", "r", "o", "r", "@", "x">>}

VerbInputs == {a \o w \o b : a \in Pads, w \in VerbWords, b \in Pads}

InitVerb ==
    /\ input \in VerbInputs
    /\ dflt = muted
    /\ pc = "call"
    /\ ret = NoRet
    /\ WriterIdle /\ CallersIdle

CallParseVerbosityLevel ==
    /\ pc = "call"
    /\ ret' = [op |-> "parseVerbosityLevel", val |-> parseVerbosityLevel(input)]
    /\ pc' = "done"
    /\ UNCHANGED <<input, dflt, writerVars, callerVars>>

NextVerb == CallParseVerbosityLevel

SpecVerb == InitVerb /\ [][NextVerb]_vars

----------------------------------------------------------------------------
(* SpecPkg: parsePackageName and parsePackageSettings applied to one string *)

DB == <<"d", "b">>
WEB == <<"w", "e", "b">>

ItemNames == {STAR, DB, <<" ">> \o DB, <<>>}

ItemSuffixes ==
    {<<>>, <<"@">>, <<"@", "t", "i", "m", "e", "r">>, <<"@", "E", "r", "r", "o", "r">>,
     <<"@", "m", "u", "t", "e">>, <<"@", "e", "r", "r", "o", "r", "@", "x">>,
     <<"@", "@", "m", "u", "t", "e">>}

ListItems == {n \o x : n \in ItemNames, x \in ItemSuffixes}

RECURSIVE ListsUpTo(_)
ListsUpTo(n) ==
    IF n = 1 THEN ListItems
    ELSE LET shorter == ListsUpTo(n - 1)
         IN  shorter \cup {l \o <<",">> \o i : l \in shorter, i \in ListItems}

ListInputs == ListsUpTo(MaxItems)

ParsedMasks ==
    {Mask(FALSE, FALSE, FALSE), Mask(FALSE, TRUE, FALSE), Mask(FALSE, TRUE, TRUE),
     Mask(TRUE, TRUE, TRUE)}

InitPkg ==
    /\ input \in ListInputs
    /\ dflt \in ParsedMasks
    /\ pc = "call"
    /\ ret = NoRet
    /\ WriterIdle /\ CallersIdle

CallParsePackageName ==
    /\ pc = "call"
    /\ ret' = [op |-> "parsePackageName", val |-> parsePackageName(input)]
    /\ pc' = "done"
    /\ UNCHANGED <<input, dflt, writerVars, callerVars>>

CallParsePackageSettings ==
    /\ pc = "call"
    /\ ret' = [op |-> "parsePackageSettings", val |-> parsePackageSettings(input, dflt)]
    /\ pc' = "done"
    /\ UNCHANGED <<input, dflt, writerVars, callerVars>>

NextPkg == CallParsePackageName \/ CallParsePackageSettings

SpecPkg == InitPkg /\ [][NextPkg]_vars

----------------------------------------------------------------------------
(* Spec: a writer built from the environment, then used by one caller *)

Unset == [set |-> FALSE, val |-> <<>>]
SetTo(v) == [set |-> TRUE, val |-> v]

\* os.Getenv: the value, or the empty string when the variable is not set
Getenv(name) == env[name].val

LOWER_ERROR == <<"e", "r", "r", "o", "r">>
LOWER_TIMER == <<"t", "i", "m", "e", "r">>

Envs ==
    {[LOG |-> Unset, LOG_LEVEL |-> Unset],
     [LOG |-> SetTo(<<>>), LOG_LEVEL |-> SetTo(<<>>)],
     [LOG |-> SetTo(STAR), LOG_LEVEL |-> SetTo(<<>>)],
     [LOG |-> SetTo(<<>>), LOG_LEVEL |-> SetTo(LOWER_ERROR)],
     [LOG |-> SetTo(STAR), LOG_LEVEL |-> SetTo(LOWER_ERROR)],
     [LOG |-> SetTo(STAR \o <<"@">> \o LOWER_ERROR), LOG_LEVEL |-> Unset],
     [LOG |-> SetTo(DB \o <<"@", "m", "u", "t", "e", ",", "*">>), LOG_LEVEL |-> SetTo(LOWER_TIMER)],
     [LOG |-> SetTo(DB), LOG_LEVEL |-> Unset],
     [LOG |-> SetTo(<<" ">>), LOG_LEVEL |-> Unset]}

PackageNames == {DB, WEB, STAR, <<>>}
Levels == {INFO, ERROR, TIMER, DEBUG}

BadAttrs == [k \in {"a", "b"} |-> IF k = "a" THEN IntVal(1) ELSE ChanVal]
GoodAttrs == [k \in {"a"} |-> IntVal(1)]

\* records handed to Write directly
DirectLogs ==
    {Log(DB, TIMER, "took", 0, Nil, 5),
     Log(WEB, DEBUG, "dbg", 0, Nil, 0),
     Log(WEB, ERROR, "down", 0, BadAttrs, 0)}

\* calls of Info and Error: the template and its arguments
FacadeCalls ==
    {[message |-> <<"bad ", "%d">>, args |-> <<IntVal(5)>>],
     [message |-> <<"up">>, args |-> <<AttrsVal(GoodAttrs)>>]}

FacadeNames == {DB, WEB}

Now == Len(calls)

Init ==
    /\ env \in Envs
    /\ writer = Nil
    /\ stream = <<>>
    /\ calls = <<>>
    /\ pc = "start"
    /\ ret = NoRet
    /\ ParserIdle /\ CallersIdle

StandardWriter_noLogDefault ==
    [ColorsEnabled |-> TRUE,
     Settings |-> parsePackageSettings(Getenv("LOG"), parseVerbosityLevel(Getenv("LOG_LEVEL")))]

\* the value NewStandardOutput returns
StandardWriter ==
    LET defaultOutputSettings == parseVerbosityLevel(Getenv("LOG_LEVEL"))
        logEnv == IF Getenv("LOG") # <<>> THEN Getenv("LOG") ELSE STAR
    IN  [ColorsEnabled |-> TRUE,
         Settings |-> parsePackageSettings(logEnv, defaultOutputSettings)]

NewStandardOutput ==
    /\ pc = "start"
    /\ writer' = StandardWriter
    /\ pc' = "constructed"
    /\ UNCHANGED <<env, stream, calls, ret, input, dflt, callerVars>>

\* the owner of the writer chooses the mode through the exported field
SetColorsEnabled(c) ==
    /\ pc = "constructed"
    /\ writer' = [writer EXCEPT !.ColorsEnabled = c]
    /\ pc' = "ready"
    /\ UNCHANGED <<env, stream, calls, ret, input, dflt, callerVars>>

WriterWrite_noFilter(log) ==
    /\ pc = "ready"
    /\ Len(calls) < MaxWrites
    /\ \E order \in Orders(log.Attrs) :
          stream' = Append(stream, Format(writer.ColorsEnabled, log, Now, order))
    /\ calls' = Append(calls, log)
    /\ UNCHANGED <<env, writer, pc, ret, input, dflt, callerVars>>

WriterWrite_newestFirst(log) ==
    /\ pc = "ready"
    /\ Len(calls) < MaxWrites
    /\ IF IsEnabled(writer.Settings, log.Package, log.Level)
       THEN \E order \in Orders(log.Attrs) :
               stream' = <<Format(writer.ColorsEnabled, log, Now, order)>> \o stream
       ELSE stream' = stream
    /\ calls' = Append(calls, log)
    /\ UNCHANGED <<env, writer, pc, ret, input, dflt, callerVars>>

WriterWrite_cachesLookup(log) ==
    /\ pc = "ready"
    /\ Len(calls) < MaxWrites
    /\ IF IsEnabled(writer.Settings, log.Package, log.Level)
       THEN \E order \in Orders(log.Attrs) :
               stream' = Append(stream, Format(writer.ColorsEnabled, log, Now, order))
       ELSE stream' = stream
    /\ calls' = Append(calls, log)
    /\ writer' = [writer EXCEPT !.Settings =
                     Put(writer.Settings, log.Package, LoggerSettings(writer.Settings, log.Package))]
    /\ UNCHANGED <<env, pc, ret, input, dflt, callerVars>>

\* StandardWriter.Write: filter, format and write one line, all before returning
WriterWrite(log) ==
    /\ pc = "ready"
    /\ Len(calls) < MaxWrites
    /\ IF IsEnabled(writer.Settings, log.Package, log.Level)
       THEN \E order \in Orders(log.Attrs) :
               stream' = Append(stream, Format(writer.ColorsEnabled, log, Now, order))
       ELSE stream' = stream
    /\ calls' = Append(calls, log)
    /\ UNCHANGED <<env, writer, pc, ret, input, dflt, callerVars>>

Write(log) == WriterWrite(log)

\* the dispatcher hands the record to the writer on the calling goroutine
runtimeLog(log) == WriterWrite(log)

LoggerLogCall(name, level, message, args) ==
    runtimeLog(LoggerLog(name, level, message, args, Now))

Info(name, msg, v) == LoggerLogCall(name, INFO, msg, v)

Error(name, msg, v) == LoggerLogCall(name, ERROR, msg, v)

CallLoggerSettings(p) ==
    /\ pc = "ready"
    /\ ret' = [op |-> "LoggerSettings", p |-> p, level |-> <<>>,
               val |-> LoggerSettings(writer.Settings, p)]
    /\ UNCHANGED <<pc, input, dflt, writerVars, callerVars>>

CallIsEnabled(p, level) ==
    /\ pc = "ready"
    /\ ret' = [op |-> "IsEnabled", p |-> p, level |-> level,
               val |-> IsEnabled(writer.Settings, p, level)]
    /\ UNCHANGED <<pc, input, dflt, writerVars, callerVars>>

Next ==
    \/ NewStandardOutput
    \/ \E c \in BOOLEAN : SetColorsEnabled(c)
    \/ \E log \in DirectLogs : Write(log)
    \/ \E name \in FacadeNames, call \in FacadeCalls : Info(name, call.message, call.args)
    \/ \E name \in FacadeNames, call \in FacadeCalls : Error(name, call.message, call.args)
    \/ \E p \in FacadeNames : CallLoggerSettings(p)
    \/ \E p \in FacadeNames, level \in {INFO, TIMER} : CallIsEnabled(p, level)

Spec == Init /\ [][Next]_vars

----------------------------------------------------------------------------
(* SpecLookup: the read-only calls on a writer holding any settings mapping *)

LookupKeys == {STAR, DB}

Mappings == UNION {[K -> OutputSettings] : K \in SUBSET LookupKeys}

InitLookup ==
    /\ writer \in [ColorsEnabled : BOOLEAN, Settings : Mappings]
    /\ env = Nil
    /\ stream = <<>>
    /\ calls = <<>>
    /\ pc = "ready"
    /\ ret = NoRet
    /\ ParserIdle /\ CallersIdle

CallFormat(log) ==
    /\ pc = "ready"
    /\ \E order \in Orders(log.Attrs) :
          ret' = [op |-> "Format", p |-> log.Package, level |-> log.Level,
                  val |-> Format(writer.ColorsEnabled, log, Now, order)]
    /\ UNCHANGED <<pc, input, dflt, writerVars, callerVars>>

NextLookup ==
    \/ \E p \in PackageNames : CallLoggerSettings(p)
    \/ \E p \in PackageNames, level \in Levels : CallIsEnabled(p, level)
    \/ \E log \in DirectLogs : CallFormat(log)

SpecLookup == InitLookup /\ [][NextLookup]_vars

----------------------------------------------------------------------------
(* SpecConc: callers writing concurrently to one destination stream *)

NumCallers == 2
Callers == 1..NumCallers

\* two open files on the same destination, as after 2>&1
Files == {"stdout", "stderr"}

ConcLogs == {Log(DB, ERROR, "down", 0, Nil, 0), Log(WEB, INFO, "up", 0, Nil, 0)}

FullMask == Mask(TRUE, TRUE, TRUE)

\* the bytes fmt.Fprintln hands to the file in one Write call, in MaxChunks pieces
LineBytes(line, id) == [k \in 1..MaxChunks |-> [call |-> id, part |-> k, line |-> line]]

InitConc ==
    /\ writer \in {[ColorsEnabled |-> c, Settings |-> m] :
                     c \in BOOLEAN,
                     m \in {parsePackageSettings(STAR, FullMask),
                            parsePackageSettings(STAR \o <<"@">> \o LOWER_ERROR, FullMask)}}
    /\ target \in [Callers -> Files]
    /\ ppc = [p \in Callers |-> "idle"]
    /\ buf = [p \in Callers |-> <<>>]
    /\ fdlock = [f \in Files |-> 0]
    /\ env = Nil
    /\ stream = <<>>
    /\ calls = <<>>
    /\ pc = "ready"
    /\ ret = NoRet
    /\ ParserIdle

\* Write up to the call of Fprintln: the filter, and the line formatted into a buffer
BeginWrite(p, log) ==
    /\ ppc[p] = "idle"
    /\ Len(calls) < MaxWrites
    /\ calls' = Append(calls, log)
    /\ IF IsEnabled(writer.Settings, log.Package, log.Level)
       THEN /\ buf' = [buf EXCEPT ![p] =
                          LineBytes(Format(writer.ColorsEnabled, log, Now, <<>>), Len(calls) + 1)]
            /\ ppc' = [ppc EXCEPT ![p] = "lock"]
       ELSE UNCHANGED <<buf, ppc>>
    /\ UNCHANGED <<env, writer, stream, target, fdlock, pc, ret, input, dflt>>

\* File.Write takes the write lock of its own file descriptor
AcquireFdLock(p) ==
    /\ ppc[p] = "lock"
    /\ fdlock[target[p]] = 0
    /\ fdlock' = [fdlock EXCEPT ![target[p]] = p]
    /\ ppc' = [ppc EXCEPT ![p] = "writing"]
    /\ UNCHANGED <<env, writer, stream, calls, target, buf, pc, ret, input, dflt>>

\* one write system call accepts a non-empty prefix of what is left; the lock
\* is released, and Write returns, when nothing is left
SyscallWrite(p, n) ==
    /\ ppc[p] = "writing"
    /\ n \in 1..Len(buf[p])
    /\ stream' = stream \o SubSeq(buf[p], 1, n)
    /\ buf' = [buf EXCEPT ![p] = SubSeq(buf[p], n + 1, Len(buf[p]))]
    /\ IF n = Len(buf[p])
       THEN /\ fdlock' = [fdlock EXCEPT ![target[p]] = 0]
            /\ ppc' = [ppc EXCEPT ![p] = "idle"]
       ELSE UNCHANGED <<fdlock, ppc>>
    /\ UNCHANGED <<env, writer, calls, target, pc, ret, input, dflt>>

NextConc ==
    \/ \E p \in Callers, log \in ConcLogs : BeginWrite(p, log)
    \/ \E p \in Callers : AcquireFdLock(p)
    \/ \E p \in Callers, n \in 1..MaxChunks : SyscallWrite(p, n)

SpecConc == InitConc /\ [][NextConc]_vars

----------------------------------------------------------------------------
(* Properties of the parsers *)

CasePairs ==
    {<<"m", "M">>, <<"u", "U">>, <<"t", "T">>, <<"e", "E">>, <<"r", "R">>, <<"o", "O">>,
     <<"i", "I">>}

SameLetter(c, u) == c = u \/ <<c, u>> \in CasePairs

\* s is the word in any letter case, with any whitespace around it
IsToken(s, word) ==
    \E a \in 1..(Len(s) + 1) :
        /\ a + Len(word) - 1 <= Len(s)
        /\ \A i \in 1..Len(s) :
              IF i < a \/ i > a + Len(word) - 1
              THEN IsSpace(s[i])
              ELSE SameLetter(s[i], word[i - a + 1])

\* C4: parseVerbosityLevel returns all-false for MUTE, Error only for ERROR,
\* Error and Timer for TIMER and all-true for every other string, whatever the
\* letter case of the token and the whitespace around it.
C4_VerbosityTable ==
    (ret.op = "parseVerbosityLevel") =>
        ret.val = (IF IsToken(input, MUTE) THEN Mask(FALSE, FALSE, FALSE)
                   ELSE IF IsToken(input, ERROR) THEN Mask(FALSE, TRUE, FALSE)
                   ELSE IF IsToken(input, TIMER) THEN Mask(FALSE, TRUE, TRUE)
                   ELSE Mask(TRUE, TRUE, TRUE))

C4_Witness ==
    /\ ret.op = "parseVerbosityLevel"
    /\ input = <<" ", "M", "u", "t", "e", "\t">>
    /\ ret.val = Mask(FALSE, FALSE, FALSE)

\* the comma-separated items of a list, by the positions of its commas
Bounds(s) == {0, Len(s) + 1} \cup {i \in 1..Len(s) : s[i] = ","}
NthBound(s, j) == CHOOSE x \in Bounds(s) : Cardinality({y \in Bounds(s) : y < x}) = j - 1
NumItems(s) == Cardinality(Bounds(s)) - 1
Item(s, j) == SubSeq(s, NthBound(s, j) + 1, NthBound(s, j + 1) - 1)

AtPos(item) == {i \in 1..Len(item) : item[i] = "@"}
HasAt(item) == AtPos(item) # {}
BeforeFirstAt(item) == IF HasAt(item) THEN SubSeq(item, 1, Min(AtPos(item)) - 1) ELSE item
AfterFirstAt(item) == SubSeq(item, Min(AtPos(item)) + 1, Len(item))
SecondAt(item) ==
    LET later == AtPos(item) \ {Min(AtPos(item))}
    IN  IF later = {} THEN Len(item) + 1 ELSE Min(later)
BetweenFirstAndSecondAt(item) == SubSeq(item, Min(AtPos(item)) + 1, SecondAt(item) - 1)

ItemName(item) == TrimSpace(BeforeFirstAt(item))

\* item j is the last item of the list with its name
IsLast(s, j) ==
    \A k \in (j + 1)..NumItems(s) : ItemName(Item(s, k)) # ItemName(Item(s, j))

\* C5 as stated: the token of an item is everything after its first '@'.
C5_TokenIsRestAfterFirstAt ==
    (ret.op = "parsePackageSettings") =>
        \A j \in 1..NumItems(input) :
            IsLast(input, j) =>
                LET item == Item(input, j)
                IN  /\ ItemName(item) \in DOMAIN ret.val
                    /\ ret.val[ItemName(item)] =
                          (IF HasAt(item) THEN parseVerbosityLevel(AfterFirstAt(item))
                           ELSE dflt)

\* C5 amended: the name of an item is the trimmed text before its first '@';
\* its token is the text between its first and its second '@' (up to the end
\* of the item when there is no second one); the mask is parseVerbosityLevel
\* of the token, and the default mask when the item has no '@'.
C5_TokenIsBetweenFirstAndSecondAt ==
    (ret.op = "parsePackageSettings") =>
        \A j \in 1..NumItems(input) :
            IsLast(input, j) =>
                LET item == Item(input, j)
                IN  /\ ItemName(item) \in DOMAIN ret.val
                    /\ ret.val[ItemName(item)] =
                          (IF HasAt(item)
                           THEN parseVerbosityLevel(BetweenFirstAndSecondAt(item))
                           ELSE dflt)

C5_Witness ==
    /\ ret.op = "parsePackageSettings"
    /\ input = DB \o <<"@", "e", "r", "r", "o", "r", "@", "x">>
    /\ ret.val[DB] = Mask(FALSE, TRUE, FALSE)

ItemMask(item) ==
    IF parsePackageName(item).verbosity = Nil THEN dflt ELSE parsePackageName(item).verbosity

\* C6: the keys of parsePackageSettings(input, default) are exactly the trimmed
\* names of the comma-separated items, and each key maps to the mask of the
\* last item with that name.
C6_KeysAndLastWins ==
    (ret.op = "parsePackageSettings") =>
        /\ DOMAIN ret.val = {parsePackageName(Item(input, j)).name : j \in 1..NumItems(input)}
        /\ \A j \in 1..NumItems(input) :
              (\A k \in (j + 1)..NumItems(input) :
                    parsePackageName(Item(input, k)).name # parsePackageName(Item(input, j)).name)
              => ret.val[parsePackageName(Item(input, j)).name] = ItemMask(Item(input, j))
        /\ (input = <<>> => DOMAIN ret.val = {<<>>})

C6_Witness ==
    /\ ret.op = "parsePackageSettings"
    /\ NumItems(input) = 2
    /\ ItemName(Item(input, 1)) = ItemName(Item(input, 2))
    /\ ItemMask(Item(input, 1)) # ItemMask(Item(input, 2))
    /\ ret.val[ItemName(Item(input, 2))] = ItemMask(Item(input, 2))

----------------------------------------------------------------------------
(* Properties of the filter / lookup *)

\* C1: LoggerSettings(p) is the mask stored under p when that key exists,
\* otherwise the mask stored under "*" when that key exists, otherwise the
\* all-false mask; with an empty mapping every name resolves to all-false.
C1_LookupPrecedence ==
    (ret.op = "LoggerSettings") =>
        /\ (ret.p \in DOMAIN writer.Settings => ret.val = writer.Settings[ret.p])
        /\ (ret.p \notin DOMAIN writer.Settings /\ STAR \in DOMAIN writer.Settings
               => ret.val = writer.Settings[STAR])
        /\ (ret.p \notin DOMAIN writer.Settings /\ STAR \notin DOMAIN writer.Settings
               => ret.val = Mask(FALSE, FALSE, FALSE))
        /\ (DOMAIN writer.Settings = {} => ret.val = Mask(FALSE, FALSE, FALSE))

C1_Witness ==
    /\ ret.op = "LoggerSettings"
    /\ ret.p = DB
    /\ DOMAIN writer.Settings = {STAR, DB}
    /\ writer.Settings[DB] # writer.Settings[STAR]
    /\ ret.val = writer.Settings[DB]

\* C2: IsEnabled(name, level) is true iff level is INFO, ERROR or TIMER and the
\* flag of that name in the mask resolved for name is true; for any other
\* level it is false.
C2_EnabledIffFlag ==
    (ret.op = "IsEnabled") =>
        LET m == LoggerSettings(writer.Settings, ret.p)
        IN  /\ ret.val <=> \/ (ret.level = INFO /\ m.Info)
                           \/ (ret.level = ERROR /\ m.Error)
                           \/ (ret.level = TIMER /\ m.Timer)
            /\ (ret.level \notin {INFO, ERROR, TIMER} => ret.val = FALSE)

C2_Witness ==
    /\ ret.op = "IsEnabled"
    /\ ret.level = TIMER
    /\ LoggerSettings(writer.Settings, ret.p) = Mask(FALSE, FALSE, TRUE)
    /\ ret.val = TRUE

----------------------------------------------------------------------------
(* Properties of the writer *)

\* the calls, by position, whose record passes the filter
EnabledCalls == {i \in 1..Len(calls) : IsEnabled(writer.Settings, calls[i].Package, calls[i].Level)}

NthEnabled(k) == CHOOSE i \in EnabledCalls : Cardinality({j \in EnabledCalls : j < i}) = k - 1

\* C3: after any sequence of Write calls the stream holds exactly one line for
\* each enabled record, in call order, and nothing for the others; with
\* LOG="*@error" that is one line per ERROR record and none for INFO.
C3_OneLinePerEnabledRecord ==
    (pc = "ready") =>
        /\ Len(stream) = Cardinality(EnabledCalls)
        /\ \A k \in 1..Len(stream) :
              \E order \in Orders(calls[NthEnabled(k)].Attrs) :
                  stream[k] = Format(writer.ColorsEnabled, calls[NthEnabled(k)],
                                     NthEnabled(k) - 1, order)
        /\ (Getenv("LOG") = STAR \o <<"@">> \o LOWER_ERROR
               => Len(stream) = Cardinality({i \in 1..Len(calls) : calls[i].Level = ERROR}))

C3_Witness ==
    /\ pc = "ready"
    /\ Getenv("LOG") = STAR \o <<"@">> \o LOWER_ERROR
    /\ writer.ColorsEnabled
    /\ Len(calls) = 2
    /\ calls[1].Level = INFO
    /\ calls[2].Level = ERROR
    /\ Len(stream) = 1
    /\ stream[1].message = "bad 5"

\* C7: with LOG unset or empty the writer decides as a writer built from
\* LOG="*" under the same LOG_LEVEL; with LOG_LEVEL empty too, every package
\* name is enabled at INFO, ERROR and TIMER.
C7_EmptyLogIsWildcard ==
    (pc # "start" /\ Getenv("LOG") = <<>>) =>
        /\ \A p \in PackageNames, level \in Levels :
              IsEnabled(writer.Settings, p, level)
                 = IsEnabled(parsePackageSettings(STAR, parseVerbosityLevel(Getenv("LOG_LEVEL"))),
                             p, level)
        /\ (Getenv("LOG_LEVEL") = <<>>
               => \A p \in PackageNames, level \in {INFO, ERROR, TIMER} :
                     IsEnabled(writer.Settings, p, level))

C7_Witness ==
    /\ pc = "ready"
    /\ env.LOG = Unset
    /\ env.LOG_LEVEL = Unset
    /\ ret.op = "IsEnabled"
    /\ ret.p = WEB
    /\ ret.level = TIMER
    /\ ret.val = TRUE
    /\ Len(stream) = 2

\* C9: once built, the settings mapping never changes: no call changes its
\* keys or masks, so every (package name, level) keeps its decision.
C9_SettingsImmutable ==
    [][pc # "start" =>
          /\ writer'.Settings = writer.Settings
          /\ \A p \in PackageNames, level \in Levels :
                IsEnabled(writer'.Settings, p, level) = IsEnabled(writer.Settings, p, level)]_vars

C9_Witness ==
    /\ pc = "ready"
    /\ Len(calls) = 2
    /\ Len(stream) = 1
    /\ ret.op = "LoggerSettings"
    /\ writer.Settings = StandardWriter.Settings
    /\ DOMAIN writer.Settings = {DB, STAR}

\* C10: every line is in the one mode ColorsEnabled selects; in JSON mode a
\* record that cannot be serialized still gets its line, an object with the
\* error description as its only field.
C10_OneModeAndFallback ==
    (pc = "ready") =>
        /\ \A k \in 1..Len(stream) :
              stream[k].mode = (IF writer.ColorsEnabled THEN "pretty" ELSE "json")
        /\ Len(stream) = Cardinality(EnabledCalls)
        /\ \A k \in 1..Len(stream) :
              (~writer.ColorsEnabled /\ MarshalError(calls[NthEnabled(k)]) # "")
                 => /\ DOMAIN stream[k].object = {"logger-error"}
                    /\ stream[k].object["logger-error"] = MarshalError(calls[NthEnabled(k)])

C10_Witness ==
    /\ pc = "ready"
    /\ ~writer.ColorsEnabled
    /\ Len(calls) = 1
    /\ calls[1].Attrs = BadAttrs
    /\ Len(stream) = 1
    /\ DOMAIN stream[1].object = {"logger-error"}

----------------------------------------------------------------------------
(* Property of concurrent writers *)

\* C8: concurrent Write calls are serialized: the bytes of each emitted line
\* are contiguous on the stream, never separated by bytes of another line.
C8_LinesContiguous ==
    \A i, j, k \in 1..Len(stream) :
        (i < j /\ j < k /\ stream[i].call = stream[k].call) => stream[j].call = stream[i].call

====
